---- MODULE Spec2Model ----
(***************************************************************************)
(* Model of the cyw43 driver runner (src/src/runner.rs): the run loop with *)
(* its three-way select, the credit controller, the IOCTL rendezvous and   *)
(* the inbound dispatch of SDPCM frames.                                   *)
(*                                                                         *)
(* An inbound packet is a record of the fields the code reads from it:     *)
(* plen is the number of bytes the status word announced, the other fields *)
(* are the values the header parsers find at the offsets the code uses.    *)
(***************************************************************************)
EXTENDS Integers, Sequences, FiniteSets, TLC

VARIABLES
    sdpcm_seq,      \* Runner.sdpcm_seq: u8
    sdpcm_seq_max,  \* Runner.sdpcm_seq_max: u8
    ioctl_id,       \* Runner.ioctl_id: u16
    pc,             \* where the runner task is suspended
    irq_du,         \* handle_irq's local irq & IRQ_DATA_UNAVAILABLE, live across check_status
    status,         \* bus.status(): latched F2_PKT_AVAILABLE bit
    chipq,          \* packets the chip holds ready on F2
    ioctl_state,    \* the IOCTL rendezvous slot
    tx_ready,       \* the host channel has an outbound packet (tx_buf is ready)
    rx_free,        \* free buffers of the host RX ring (try_rx_buf)
    last,           \* the runner's last step: the frame it wrote, or the packet it
                    \* read into the scratch buffer, the branch of rx it took and
                    \* the calls rx made
    events,         \* the event bus: publications no subscriber has taken yet
    sent,           \* frames and IOCTLs the runner has written to the bus so far
    boot,           \* progress of Runner::init and the chip registers it drives
    log             \* LogState and the position of log_read (feature firmware-logs)

vars == <<sdpcm_seq, sdpcm_seq_max, ioctl_id, pc, irq_du, status, chipq,
          ioctl_state, tx_ready, rx_free, last, events, sent, boot, log>>

----------------------------------------------------------------------------
(* Integer widths and layout constants *)

U8 == 256
U16 == 65536

SDPCM_HEADER_SIZE == 12
CDC_HEADER_SIZE == 16
BCD_HEADER_SIZE == 4
EVENT_PACKET_SIZE == 72
EVENT_MESSAGE_SIZE == 48

CHANNEL_TYPE_CONTROL == 0
CHANNEL_TYPE_EVENT == 1
CHANNEL_TYPE_DATA == 2

ETH_P_LINK_CTL == 34924
BROADCOM_OUI == <<0, 16, 24>>
BCMILCP_SUBTYPE_VENDOR_LONG == 32769
BCMILCP_BCM_SUBTYPE_EVENT == 1

EVENT_JOIN == 1
EVENT_AUTH == 3

(* Bounds of the model *)
MaxIoctl == 2       \* IOCTLs the callers submit
MaxTx == 2          \* packets the host stack submits (main specification)
MaxChipQ == 1       \* packets the chip queues ahead of the runner
MaxRx == 1          \* buffers of the host RX ring
MaxEvents == 2      \* publications the event bus holds
MaxWindowTx == 300  \* packets the host stack submits (credit window specification)
MaxPolls == 2       \* polls a wait of init needs before the chip is ready
MaxPayload == 32    \* payload lengths of the framing specification

----------------------------------------------------------------------------
(* Fixed-width arithmetic *)

WrappingAdd8(a, b) == (a + b) % U8
WrappingSub8(a, b) == (a - b + U8) % U8
WrappingAdd16(a, b) == (a + b) % U16
Not16(x) == (U16 - 1) - x
Bit7(x) == (x \div 128) % 2
Swap16(x) == (x % 256) * 256 + (x \div 256)
\* A u32 is the pair <<high half, low half>> of its 16-bit halves.
W32(n) == <<n \div U16, n % U16>>
Swap32(x) == <<Swap16(x[2]), Swap16(x[1])>>
AsU8(x) == x[2] % U8
GreaterEq32(x, n) == x[1] > 0 \/ x[2] >= n
\* !n as u16 taken from the length rounded up to words
NotAsU16Rounded(n) == Not16((((n + 3) \div 4) * 4) % U16)

\* !n as u16 for a usize n: the low 16 bits of the complement
NotAsU16(n) == Not16(n % U16)
RoundUp4(n) == ((n + 3) \div 4) * 4

----------------------------------------------------------------------------
(* Credit controller *)

\* update_credit without the clamp: the credit is taken as received
UpdateCreditNoClamp(seq, seq_max, header, ovf) ==
    IF header.chan % 16 < 3
    THEN [seq_max |-> header.credit, panic |-> FALSE]
    ELSE [seq_max |-> seq_max, panic |-> FALSE]

\* update_credit clamping one step late (> 0x41 for > 0x40)
UpdateCreditLateClamp(seq, seq_max, header, ovf) ==
    IF header.chan % 16 < 3
    THEN IF WrappingSub8(header.credit, seq) > 65
         THEN IF seq + 2 >= U8
              THEN IF ovf = "panic"
                   THEN [seq_max |-> seq_max, panic |-> TRUE]
                   ELSE [seq_max |-> (seq + 2) % U8, panic |-> FALSE]
              ELSE [seq_max |-> seq + 2, panic |-> FALSE]
         ELSE [seq_max |-> header.credit, panic |-> FALSE]
    ELSE [seq_max |-> seq_max, panic |-> FALSE]

\* Runner::update_credit. ovf is the build's treatment of the u8 addition
\* sdpcm_seq + 2 when it exceeds 255: "panic" (overflow checks on) or "wrap"
\* (overflow checks off). Yields the new sdpcm_seq_max and whether it aborted.
UpdateCredit(seq, seq_max, header, ovf) ==
    IF header.chan % 16 < 3
    THEN IF WrappingSub8(header.credit, seq) > 64
         THEN IF seq + 2 >= U8
              THEN IF ovf = "panic"
                   THEN [seq_max |-> seq_max, panic |-> TRUE]
                   ELSE [seq_max |-> (seq + 2) % U8, panic |-> FALSE]
              ELSE [seq_max |-> seq + 2, panic |-> FALSE]
         ELSE [seq_max |-> header.credit, panic |-> FALSE]
    ELSE [seq_max |-> seq_max, panic |-> FALSE]

\* has_credit without the test sdpcm_seq != sdpcm_seq_max
HasCreditNoEqualityTest(seq, seq_max) ==
    Bit7(WrappingSub8(seq_max, seq)) = 0

\* Runner::has_credit
HasCredit(seq, seq_max) ==
    seq # seq_max /\ Bit7(WrappingSub8(seq_max, seq)) = 0

----------------------------------------------------------------------------
(* Inbound dispatch: Runner::rx as a function of the packet and the state   *)
(* it reads. The result names the branch taken (kind), the new              *)
(* sdpcm_seq_max, whether the code aborted (panic), and the calls it made:  *)
(* ioctl_done (done, with the slice of the packet passed as response),      *)
(* publish_immediate (pub) and rx_done (enq).                               *)

NoEffect(kind, seq_max) ==
    [kind |-> kind, seq_max |-> seq_max, panic |-> FALSE,
     done |-> FALSE, resp_off |-> 0, resp_len |-> 0,
     pub |-> FALSE, pub_status |-> W32(0), pub_type |-> 0,
     enq |-> FALSE, enq_off |-> 0, enq_len |-> 0]

\* No call of rx: the runner's last step was not a dispatch
NoRes == NoEffect("none", 0)

Panic(kind, seq_max) == [NoEffect(kind, seq_max) EXCEPT !.panic = TRUE]

\* events::Event::from(event_type as u8): the enum value of the low byte
EventFrom(event_type) == AsU8(event_type)

\* The CONTROL arm without the comparison of the CDC id with ioctl_id
RxControlAnyId(p, id, seq_max, payload_len) ==
    IF payload_len < CDC_HEADER_SIZE
    THEN NoEffect("ctl_short", seq_max)
    ELSE IF p.cdc_status # 0
         THEN Panic("ctl_status_panic", seq_max)
         ELSE IF p.cdc_len > payload_len - CDC_HEADER_SIZE
              THEN Panic("ctl_slice_panic", seq_max)
              ELSE [NoEffect("ctl_done", seq_max) EXCEPT
                       !.done = TRUE,
                       !.resp_off = p.hlen + CDC_HEADER_SIZE,
                       !.resp_len = p.cdc_len]

\* CHANNEL_TYPE_CONTROL arm; payload_len = packet.len() - header_length
RxControl(p, id, seq_max, payload_len) ==
    IF payload_len < CDC_HEADER_SIZE
    THEN NoEffect("ctl_short", seq_max)
    ELSE IF p.cdc_id = id
         THEN IF p.cdc_status # 0
              THEN Panic("ctl_status_panic", seq_max)
              ELSE IF p.cdc_len > payload_len - CDC_HEADER_SIZE
                   THEN Panic("ctl_slice_panic", seq_max)
                   ELSE [NoEffect("ctl_done", seq_max) EXCEPT
                            !.done = TRUE,
                            !.resp_off = p.hlen + CDC_HEADER_SIZE,
                            !.resp_len = p.cdc_len]
         ELSE NoEffect("ctl_nomatch", seq_max)

\* CHANNEL_TYPE_EVENT arm
RxEvent(p, seq_max, payload_len) ==
    IF payload_len < BCD_HEADER_SIZE
    THEN Panic("ev_slice_panic", seq_max)
    ELSE LET packet_start == BCD_HEADER_SIZE + 4 * p.data_offset
             bcd_len == payload_len - packet_start
             ether_type == Swap16(p.ether_type)
             subtype == Swap16(p.subtype)
             user_subtype == Swap16(p.user_subtype)
             event_type == Swap32(p.event_type)
             ev_status == Swap32(p.ev_status)
             datalen == Swap32(p.datalen)
             evt_type == EventFrom(event_type)
         IN  IF packet_start + EVENT_PACKET_SIZE > payload_len
             THEN NoEffect("ev_incomplete_header", seq_max)
             ELSE IF ether_type # ETH_P_LINK_CTL
             THEN NoEffect("ev_bad_ether_type", seq_max)
             ELSE IF p.oui # BROADCOM_OUI
             THEN NoEffect("ev_bad_oui", seq_max)
             ELSE IF subtype # BCMILCP_SUBTYPE_VENDOR_LONG
             THEN NoEffect("ev_bad_subtype", seq_max)
             ELSE IF user_subtype # BCMILCP_BCM_SUBTYPE_EVENT
             THEN NoEffect("ev_bad_user_subtype", seq_max)
             ELSE IF GreaterEq32(datalen, bcd_len - EVENT_MESSAGE_SIZE)
             THEN NoEffect("ev_incomplete_data", seq_max)
             ELSE IF evt_type = EVENT_AUTH \/ evt_type = EVENT_JOIN
             THEN [NoEffect("ev_publish", seq_max) EXCEPT
                      !.pub = TRUE, !.pub_status = ev_status, !.pub_type = evt_type]
             ELSE NoEffect("ev_other", seq_max)

\* The DATA arm committing the packet whether or not try_rx_buf has a buffer
RxDataIgnoresRing(p, seq_max, payload_len, free) ==
    IF payload_len < BCD_HEADER_SIZE
    THEN Panic("data_slice_panic", seq_max)
    ELSE LET packet_start == BCD_HEADER_SIZE + 4 * p.data_offset
         IN  IF packet_start > payload_len
             THEN NoEffect("data_out_of_range", seq_max)
             ELSE [NoEffect("data_enqueued", seq_max) EXCEPT
                      !.enq = TRUE,
                      !.enq_off = p.hlen + packet_start,
                      !.enq_len = payload_len - packet_start]

\* CHANNEL_TYPE_DATA arm; free = buffers try_rx_buf can hand out
RxData(p, seq_max, payload_len, free) ==
    IF payload_len < BCD_HEADER_SIZE
    THEN Panic("data_slice_panic", seq_max)
    ELSE LET packet_start == BCD_HEADER_SIZE + 4 * p.data_offset
         IN  IF packet_start > payload_len
             THEN NoEffect("data_out_of_range", seq_max)
             ELSE IF free > 0
                  THEN [NoEffect("data_enqueued", seq_max) EXCEPT
                           !.enq = TRUE,
                           !.enq_off = p.hlen + packet_start,
                           !.enq_len = payload_len - packet_start]
                  ELSE NoEffect("data_ring_full", seq_max)

\* rx without the check of the header len against the received length
RxNoLenCheck(p, seq, seq_max, id, free, ovf) ==
    IF p.plen < SDPCM_HEADER_SIZE
    THEN NoEffect("too_short", seq_max)
    ELSE IF p.len # Not16(p.len_inv)
    THEN NoEffect("len_inv_mismatch", seq_max)
    ELSE LET uc == UpdateCredit(seq, seq_max, p, ovf)
             channel == p.chan % 16
         IN  IF uc.panic
             THEN Panic("credit_overflow_panic", seq_max)
             ELSE IF p.hlen > p.plen
             THEN Panic("payload_slice_panic", uc.seq_max)
             ELSE IF channel = CHANNEL_TYPE_CONTROL
             THEN RxControl(p, id, uc.seq_max, p.plen - p.hlen)
             ELSE IF channel = CHANNEL_TYPE_EVENT
             THEN RxEvent(p, uc.seq_max, p.plen - p.hlen)
             ELSE IF channel = CHANNEL_TYPE_DATA
             THEN RxData(p, uc.seq_max, p.plen - p.hlen, free)
             ELSE NoEffect("ignored", uc.seq_max)

\* Runner::rx
Rx(p, seq, seq_max, id, free, ovf) ==
    IF p.plen < SDPCM_HEADER_SIZE
    THEN NoEffect("too_short", seq_max)
    ELSE IF p.len # Not16(p.len_inv)
    THEN NoEffect("len_inv_mismatch", seq_max)
    ELSE IF p.len # p.plen
    THEN NoEffect("len_mismatch", seq_max)
    ELSE LET uc == UpdateCredit(seq, seq_max, p, ovf)
             channel == p.chan % 16
         IN  IF uc.panic
             THEN Panic("credit_overflow_panic", seq_max)
             ELSE IF p.hlen > p.plen
             THEN Panic("payload_slice_panic", uc.seq_max)
             ELSE IF channel = CHANNEL_TYPE_CONTROL
             THEN RxControl(p, id, uc.seq_max, p.plen - p.hlen)
             ELSE IF channel = CHANNEL_TYPE_EVENT
             THEN RxEvent(p, uc.seq_max, p.plen - p.hlen)
             ELSE IF channel = CHANNEL_TYPE_DATA
             THEN RxData(p, uc.seq_max, p.plen - p.hlen, free)
             ELSE NoEffect("ignored", uc.seq_max)

----------------------------------------------------------------------------
(* Inbound packets the chip can deliver *)

\* A packet with a consistent SDPCM header and zeroed payload fields.
Header(plen, chan, credit) ==
    [plen |-> plen, len |-> plen, len_inv |-> Not16(plen),
     chan |-> chan, hlen |-> SDPCM_HEADER_SIZE, credit |-> credit,
     cdc_id |-> 0, cdc_status |-> 0, cdc_len |-> 0,
     data_offset |-> 0,
     ether_type |-> 0, oui |-> <<0, 0, 0>>, subtype |-> 0, user_subtype |-> 0,
     event_type |-> W32(0), ev_status |-> W32(0), datalen |-> W32(0)]

\* The scratch buffer before any packet was read into it
NoPkt == Header(0, 0, 0)

\* A CONTROL frame: CDC header and rlen bytes of reply after it.
ControlPkt(credit, id, st, clen, rlen) ==
    [Header(SDPCM_HEADER_SIZE + CDC_HEADER_SIZE + rlen, CHANNEL_TYPE_CONTROL, credit)
        EXCEPT !.cdc_id = id, !.cdc_status = st, !.cdc_len = clen]

\* An EVENT frame carrying a well-formed event packet and 8 bytes of event
\* data; the multi-byte fields are big-endian on the wire.
EventPkt(credit, etype, st) ==
    [Header(SDPCM_HEADER_SIZE + BCD_HEADER_SIZE + EVENT_PACKET_SIZE + 8,
            CHANNEL_TYPE_EVENT, credit)
        EXCEPT !.ether_type = Swap16(ETH_P_LINK_CTL), !.oui = BROADCOM_OUI,
               !.subtype = Swap16(BCMILCP_SUBTYPE_VENDOR_LONG),
               !.user_subtype = Swap16(BCMILCP_BCM_SUBTYPE_EVENT),
               !.event_type = Swap32(W32(etype)), !.ev_status = Swap32(W32(st)),
               !.datalen = Swap32(W32(8))]

\* A DATA frame: BDC header and 20 bytes after it.
DataPkt(credit, off) ==
    [Header(SDPCM_HEADER_SIZE + BCD_HEADER_SIZE + 20, CHANNEL_TYPE_DATA, credit)
        EXCEPT !.data_offset = off]

MalformedPkts(c, id) ==
    { [ControlPkt(c, id, 0, 3, 3) EXCEPT !.plen = 0],
      [ControlPkt(c, id, 0, 3, 3) EXCEPT !.plen = 11],
      [ControlPkt(c, id, 0, 3, 3) EXCEPT !.plen = 100, !.len = 100, !.len_inv = 0],
      [DataPkt(c, 0) EXCEPT !.len_inv = Not16(36) - 1],
      [ControlPkt(c, id, 0, 3, 3) EXCEPT !.plen = 32],
      [EventPkt(c, EVENT_JOIN, 0) EXCEPT !.len = 95, !.len_inv = Not16(95)] }

ControlPkts(c, id) ==
    { ControlPkt(c, i, st, clen, 3) :
        i \in {id, (id + 1) % U16, 0}, st \in {0, 5}, clen \in {3, 4} }
    \cup { [ControlPkt(c, id, 0, 3, 5) EXCEPT !.hlen = 14],
           [ControlPkt(c, id, 0, 3, 3) EXCEPT !.chan = 16],
           [ControlPkt(c, id, 0, 0, 3) EXCEPT !.plen = 20, !.len = 20, !.len_inv = Not16(20)],
           [ControlPkt(c, id, 0, 3, 3) EXCEPT !.hlen = 200] }

EventPkts(c) ==
    { EventPkt(c, EVENT_JOIN, 0), EventPkt(c, EVENT_AUTH, 1),
      EventPkt(c, 2, 0), EventPkt(c, 257, 0),
      [EventPkt(c, EVENT_JOIN, 0) EXCEPT !.ether_type = Swap16(2048)],
      [EventPkt(c, EVENT_JOIN, 0) EXCEPT !.ether_type = ETH_P_LINK_CTL],
      [EventPkt(c, EVENT_JOIN, 0) EXCEPT !.oui = <<0, 16, 25>>],
      [EventPkt(c, EVENT_JOIN, 0) EXCEPT !.subtype = Swap16(1)],
      [EventPkt(c, EVENT_JOIN, 0) EXCEPT !.user_subtype = Swap16(2)],
      [EventPkt(c, EVENT_JOIN, 0) EXCEPT !.datalen = Swap32(W32(32))],
      [EventPkt(c, EVENT_JOIN, 0) EXCEPT !.data_offset = 5],
      [EventPkt(c, EVENT_JOIN, 0) EXCEPT !.plen = 14, !.len = 14, !.len_inv = Not16(14)] }

DataPkts(c) ==
    { DataPkt(c, 0), DataPkt(c, 1), DataPkt(c, 10),
      [DataPkt(c, 0) EXCEPT !.plen = 13, !.len = 13, !.len_inv = Not16(13)] }

OtherPkts(c) ==
    { Header(SDPCM_HEADER_SIZE, 3, c), Header(SDPCM_HEADER_SIZE + 4, 15, c) }

\* bus_data_credit is drawn relative to the sequence number the runner is at:
\* no credit (0), one frame (1), the widest window the clamp lets through
\* (64), the narrowest it clamps (65), the spec's example (190, as 200 at
\* sequence 10) and a stale credit just behind the sequence (255).
Credit(seq, d) == WrappingAdd8(seq, d)

\* The EVENT frames that lead to no publication
QuietEventPkts(c) ==
    { p \in EventPkts(c) : ~RxEvent(p, 0, p.plen - p.hlen).pub }

\* Everything the chip may deliver in the main specification
Packets(seq, id) ==
    MalformedPkts(Credit(seq, 190), id)
    \cup ControlPkts(Credit(seq, 1), id)
    \cup QuietEventPkts(Credit(seq, 1))
    \cup DataPkts(Credit(seq, 1))
    \cup OtherPkts(Credit(seq, 190))
    \cup { ControlPkt(Credit(seq, d), (id + 1) % U16, 0, 3, 3) : d \in {0, 190} }
    \cup { DataPkt(Credit(seq, 65), 0) }

\* Frames that only move the credit window: a CONTROL reply to nobody under
\* each credit, an ignored channel and a malformed frame.
WindowDeltas == {0, 1, 64, 65, 190, 255}

\* The EVENT frames of every kind, granting one frame of credit or none,
\* and a DATA frame between them
EventPackets(seq) ==
    EventPkts(Credit(seq, 1)) \cup EventPkts(Credit(seq, 0))
    \cup { DataPkt(Credit(seq, 1), 0) }

\* The reply to the outstanding IOCTL and a frame for nobody, each granting
\* one frame of credit
CounterPackets(seq, id) ==
    { ControlPkt(Credit(seq, 1), i, 0, 3, 3) : i \in {id, (id + 1) % U16} }

WindowPackets(seq, id) ==
    { ControlPkt(Credit(seq, d), (id + 1) % U16, 0, 3, 3) : d \in WindowDeltas }
    \cup { Header(SDPCM_HEADER_SIZE, 3, Credit(seq, 64)),
           [ControlPkt(Credit(seq, 64), id, 0, 3, 3) EXCEPT !.len_inv = 0] }


----------------------------------------------------------------------------
(* Outbound framing *)

NoFrame ==
    [len |-> 0, len_inv |-> 0, sequence |-> 0, channel_and_flags |-> 0,
     header_length |-> 0, bus_data_credit |-> 0, id |-> 0, words |-> 0]

\* The header carrying the sequence number after its increment
SdpcmFrameNextSeq(seq, chan, total_len, id) ==
    [len |-> total_len % U16,
     len_inv |-> NotAsU16(total_len),
     sequence |-> WrappingAdd8(seq, 1),
     channel_and_flags |-> chan,
     header_length |-> SDPCM_HEADER_SIZE,
     bus_data_credit |-> 0,
     id |-> id,
     words |-> RoundUp4(total_len) \div 4]

\* The SdpcmHeader both TX paths build, with the CDC id (0 on a data frame)
\* and the number of 32-bit words handed to wlan_write.
SdpcmFrame(seq, chan, total_len, id) ==
    [len |-> total_len % U16,
     len_inv |-> NotAsU16(total_len),
     sequence |-> seq,
     channel_and_flags |-> chan,
     header_length |-> SDPCM_HEADER_SIZE,
     bus_data_credit |-> 0,
     id |-> id,
     words |-> RoundUp4(total_len) \div 4]

\* Payload lengths the callers and the host stack hand over
IoctlLens == {2, 5}
TxLens == {60}

\* The scratch buffer of both TX paths: [0; 512] words
SCRATCH_SIZE == 2048

\* Every payload length up to MaxPayload, and the longest payload that fits
\* the scratch buffer behind headers of hdr bytes
PayloadLens(hdr) == (0 .. MaxPayload) \cup {SCRATCH_SIZE - hdr}

----------------------------------------------------------------------------
(* The IOCTL rendezvous (IoctlState) *)

IdleSlot == [st |-> "Idle", resp_off |-> 0, resp_len |-> 0]

\* wait_pending that yields the IOCTL again while it is outstanding
WaitPendingOrSent(slot) == slot.st \in {"Pending", "Sent"}

\* IoctlState::wait_pending: ready when an IOCTL is pending
WaitPending(slot) == slot.st = "Pending"

\* IoctlState::ioctl_done: completes the IOCTL that was sent; with none sent
\* the response is dropped.
IoctlDone(slot, off, len) ==
    IF slot.st = "Sent"
    THEN [slot EXCEPT !.st = "Done", !.resp_off = off, !.resp_len = len]
    ELSE slot

----------------------------------------------------------------------------
(* The event bus (EventQueue) *)

\* publish_immediate putting the publication ahead of the older ones
PublishAhead(q, m) ==
    IF Len(q) >= MaxEvents THEN <<m>> \o Tail(q) ELSE <<m>> \o q

\* publish_immediate: never blocks; with the queue full the oldest
\* publication is dropped.
PublishImmediate(q, m) ==
    IF Len(q) >= MaxEvents THEN Append(Tail(q), m) ELSE Append(q, m)

----------------------------------------------------------------------------
(* The run loop *)

\* Top of the loop in Runner::run: the branch has_credit() selects, where the
\* task then suspends.
LoopTop(seq, seq_max) ==
    IF HasCredit(seq, seq_max) THEN "select" ELSE "stalled"

\* The IRQ line: only F2_PACKET_AVAILABLE is unmasked by init.
IrqLine == chipq > 0

----------------------------------------------------------------------------
(* Backplane core control and the boot sequence: Runner::init              *)

\* The state of a backplane core: its reset-control bit and the flags of
\* its IO-control register.
CoreState(reset, ioctrl) == [reset |-> reset, ioctrl |-> ioctrl]

\* core_disable leaving the core as it found it
CoreDisableNothing(c) == c

\* core_disable: nothing if the core is already in reset; else IO-control is
\* cleared and reset asserted.
CoreDisable(c) ==
    IF c.reset
    THEN c
    ELSE [[c EXCEPT !.ioctrl = {}] EXCEPT !.reset = TRUE]

\* core_reset: core_disable, IO-control FGC|CLOCK_EN, reset cleared,
\* IO-control CLOCK_EN.
CoreReset(c) ==
    LET d == CoreDisable(c)
        e == [d EXCEPT !.ioctrl = {"FGC", "CLOCK_EN"}]
        f == [e EXCEPT !.reset = FALSE]
    IN  [f EXCEPT !.ioctrl = {"CLOCK_EN"}]

\* core_is_up
CoreIsUp(c) ==
    IF c.ioctrl \cap {"FGC", "CLOCK_EN"} # {"CLOCK_EN"}
    THEN FALSE
    ELSE IF c.reset THEN FALSE ELSE TRUE

\* The exit test of the three waits of init: the value read has the bit
BitSet(value, bit) == bit \in value

\* The bus operations of init, in the order of its statements
BootOps ==
    << "alp_req", "alp_avail", "chip_id", "wlan_disable", "socsram_reset",
       "bank_cfg", "fw", "nvram", "nvram_len", "wlan_reset", "wlan_up",
       "ht_avail", "irq_enable", "watermark", "f2_rx_ready", "pull_up" >>

\* The runner before init: no bus operation yet; each core is in reset or
\* running with its clock enabled.
BootStart(wlan_reset, socsram_reset) ==
    [pc |-> "alp_req", ops |-> << >>, polls |-> 0, read |-> {},
     core |-> [c \in {"WLAN", "SOCSRAM"} |->
                  LET r == IF c = "WLAN" THEN wlan_reset ELSE socsram_reset
                  IN  CoreState(r, IF r THEN {} ELSE {"CLOCK_EN"})]]

\* A statement of init that completes: the operation op is logged, the cores
\* become core, control moves to the statement to; after the last statement
\* run is entered.
InitStep(from, to, op, core, read) ==
    /\ pc = "init"
    /\ boot.pc = from
    /\ boot' = [pc |-> to, ops |-> Append(boot.ops, op), polls |-> 0,
                read |-> read, core |-> core]
    /\ pc' = IF to = "done" THEN LoopTop(sdpcm_seq, sdpcm_seq_max) ELSE pc
    /\ UNCHANGED <<log, sdpcm_seq, sdpcm_seq_max, ioctl_id, irq_du, status, chipq,
                   ioctl_state, tx_ready, rx_free, last, events, sent>>

\* A wait of init: the register is read; while the value lacks the bit the
\* loop reads again. The chip needs at most MaxPolls further polls.
InitWait(from, to, op, bit, others) ==
    \E value \in {others, others \cup {bit}} :
       IF BitSet(value, bit)
       THEN InitStep(from, to, op, boot.core, value)
       ELSE /\ pc = "init"
            /\ boot.pc = from
            /\ boot.polls < MaxPolls
            /\ boot' = [boot EXCEPT !.polls = @ + 1, !.read = value]
            /\ UNCHANGED <<log, sdpcm_seq, sdpcm_seq_max, ioctl_id, pc, irq_du, status,
                           chipq, ioctl_state, tx_ready, rx_free, last, events,
                           sent>>

\* bus.init and the ALP request
InitAlpReq == InitStep("alp_req", "alp_wait", "alp_req", boot.core, {})

\* while read8(CHIP_CLOCK_CSR) & ALP_AVAIL == 0
InitAlpWait == InitWait("alp_wait", "chip_id", "alp_avail", "ALP_AVAIL", {})

InitChipId == InitStep("chip_id", "wlan_disable", "chip_id", boot.core, {})

\* core_disable(WLAN)
InitWlanDisable ==
    InitStep("wlan_disable", "socsram_reset", "wlan_disable",
             [boot.core EXCEPT !["WLAN"] = CoreDisable(@)], {})

\* core_reset(SOCSRAM)
InitSocsramReset ==
    InitStep("socsram_reset", "bank_cfg", "socsram_reset",
             [boot.core EXCEPT !["SOCSRAM"] = CoreReset(@)], {})

\* The two bank configuration writes
InitBankCfg == InitStep("bank_cfg", "fw", "bank_cfg", boot.core, {})

\* bp_write(ram_addr, firmware)
InitFirmware == InitStep("fw", "nvram", "fw", boot.core, {})

\* bp_write of NVRAM below the top of RAM
InitNvram == InitStep("nvram", "nvram_len", "nvram", boot.core, {})

\* bp_write32 of the NVRAM length trailer
InitNvramLen == InitStep("nvram_len", "wlan_reset", "nvram_len", boot.core, {})

\* core_reset(WLAN)
InitWlanReset ==
    InitStep("wlan_reset", "wlan_up", "wlan_reset",
             [boot.core EXCEPT !["WLAN"] = CoreReset(@)], {})

\* assert!(core_is_up(WLAN))
InitWlanUp ==
    IF CoreIsUp(boot.core["WLAN"])
    THEN InitStep("wlan_up", "ht_wait", "wlan_up", boot.core, {})
    ELSE /\ pc = "init"
         /\ boot.pc = "wlan_up"
         /\ pc' = "panicked"
         /\ UNCHANGED <<log, sdpcm_seq, sdpcm_seq_max, ioctl_id, irq_du, status, chipq,
                        ioctl_state, tx_ready, rx_free, last, events, sent, boot>>

\* while read8(CHIP_CLOCK_CSR) & 0x80 == 0
InitHtWait ==
    InitWait("ht_wait", "irq_enable", "ht_avail", "HT_AVAIL", {"ALP_AVAIL"})

\* write16(REG_BUS_INTERRUPT_ENABLE, IRQ_F2_PACKET_AVAILABLE)
InitIrqEnable == InitStep("irq_enable", "watermark", "irq_enable", boot.core, {})

\* write8(FUNCTION2_WATERMARK, 32)
InitWatermark == InitStep("watermark", "f2_wait", "watermark", boot.core, {})

\* while read32(REG_BUS_STATUS) & STATUS_F2_RX_READY == 0
InitF2Wait == InitWait("f2_wait", "pull_up", "f2_rx_ready", "F2_RX_READY", {})

\* The pull-up write and read; init returns and run is entered
InitPullUp == InitStep("pull_up", "done", "pull_up", boot.core, {})

\* Runner::init
InitNext ==
    \/ InitAlpReq
    \/ InitAlpWait
    \/ InitChipId
    \/ InitWlanDisable
    \/ InitSocsramReset
    \/ InitBankCfg
    \/ InitFirmware
    \/ InitNvram
    \/ InitNvramLen
    \/ InitWlanReset
    \/ InitWlanUp
    \/ InitHtWait
    \/ InitIrqEnable
    \/ InitWatermark
    \/ InitF2Wait
    \/ InitPullUp

----------------------------------------------------------------------------
(* Firmware log tailing: Runner::log_read (feature firmware-logs)          *)

\* The ring of the chip's console: let mut buf = [0; 0x400]
LOG_RING_SIZE == 1024
\* LogState.buf: [u8; 256]
LOG_BUF_SIZE == 256

\* Write indices the log header reports: log.idx is a u32 read from the chip
LogIdx == {0, 1, 5, 260, 1023, 1024}

\* Contents of the ring: text in lines of three characters, one line without
\* an end, or line ends only. TRUE where the byte is '\r' or '\n'.
LogRings == {"lines", "long", "blank"}
IsLineEnd(ring, i) ==
    CASE ring = "lines" -> i % 4 = 3
      [] ring = "long" -> FALSE
      [] ring = "blank" -> TRUE

\* LogState::default, log_read not running
LogDefault ==
    [pc |-> "idle", last_idx |-> 0, buf_count |-> 0, idx |-> 0, ring |-> "lines"]

\* log_read up to its loop, called at the top of an iteration of run: the
\* header is read; with idx = last_idx it returns, else the ring is read.
LogRead ==
    /\ pc \in {"select", "stalled"}
    /\ log.pc = "idle"
    /\ \E idx \in LogIdx, ring \in LogRings :
         log' = [log EXCEPT !.idx = idx, !.ring = ring,
                            !.pc = IF idx = log.last_idx THEN "idle" ELSE "loop"]
    /\ UNCHANGED <<sdpcm_seq, sdpcm_seq_max, ioctl_id, pc, irq_du, status, chipq,
                   ioctl_state, tx_ready, rx_free, last, events, sent, boot>>

\* One pass of while self.log.last_idx != idx
LogLoop ==
    /\ log.pc = "loop"
    /\ LET buf_count == IF IsLineEnd(log.ring, log.last_idx)
                        THEN 0
                        ELSE IF log.buf_count < LOG_BUF_SIZE
                             THEN log.buf_count + 1
                             ELSE log.buf_count
           last_idx == IF log.last_idx + 1 = LOG_RING_SIZE
                       THEN 0
                       ELSE log.last_idx + 1
       IN  log' = [log EXCEPT !.buf_count = buf_count, !.last_idx = last_idx,
                              !.pc = IF last_idx # log.idx THEN "loop" ELSE "idle"]
    /\ UNCHANGED <<sdpcm_seq, sdpcm_seq_max, ioctl_id, pc, irq_du, status, chipq,
                   ioctl_state, tx_ready, rx_free, last, events, sent, boot>>

\* The runner as Runner::new leaves it, about to execute init
Init ==
    /\ sdpcm_seq = 0
    /\ sdpcm_seq_max = 1
    /\ ioctl_id = 0
    /\ pc = "init"
    /\ irq_du = FALSE
    /\ status = FALSE
    /\ chipq = 0
    /\ ioctl_state = IdleSlot
    /\ tx_ready = FALSE
    /\ rx_free = MaxRx
    /\ last = [op |-> "init", frame |-> NoFrame, kind |-> "none", pkt |-> NoPkt,
               res |-> NoRes]
    /\ events = << >>
    /\ sent = [frames |-> 0, ioctls |-> 0]
    /\ \E w, m \in BOOLEAN : boot = BootStart(w, m)
    /\ log = LogDefault

\* Either3::First: wait_pending yields the pending IOCTL, send_ioctl frames
\* and writes it; check_status follows. Lens are the lengths of data the
\* callers pass.
IoctlSend(Lens) ==
    /\ pc = "select"
    /\ WaitPending(ioctl_state)
    /\ ioctl_state' = [ioctl_state EXCEPT !.st = "Sent"]
    /\ sdpcm_seq' = WrappingAdd8(sdpcm_seq, 1)
    /\ ioctl_id' = WrappingAdd16(ioctl_id, 1)
    /\ \E n \in Lens :
         last' = [op |-> "ioctl",
                  frame |-> SdpcmFrame(sdpcm_seq, CHANNEL_TYPE_CONTROL,
                                       SDPCM_HEADER_SIZE + CDC_HEADER_SIZE + n,
                                       WrappingAdd16(ioctl_id, 1)),
                  kind |-> "none", pkt |-> NoPkt, res |-> NoRes]
    /\ status' = (chipq > 0)
    /\ irq_du' = FALSE
    /\ pc' = "check_status"
    /\ sent' = [frames |-> sent.frames + 1, ioctls |-> sent.ioctls + 1]
    /\ UNCHANGED <<log, events, boot,
                   sdpcm_seq_max, chipq, tx_ready, rx_free>>

IoctlArm == IoctlSend(IoctlLens)

\* The TX arm without its call of tx_done
TxSendNoDone(Lens) ==
    /\ pc = "select"
    /\ tx_ready
    /\ \E n \in Lens :
         last' = [op |-> "tx",
                  frame |-> SdpcmFrame(sdpcm_seq, CHANNEL_TYPE_DATA,
                                       SDPCM_HEADER_SIZE + BCD_HEADER_SIZE + n, 0),
                  kind |-> "none", pkt |-> NoPkt, res |-> NoRes]
    /\ sdpcm_seq' = WrappingAdd8(sdpcm_seq, 1)
    /\ tx_ready' = tx_ready
    /\ status' = (chipq > 0)
    /\ irq_du' = FALSE
    /\ pc' = "check_status"
    /\ sent' = [sent EXCEPT !.frames = @ + 1]
    /\ UNCHANGED <<log, events, boot,
                   sdpcm_seq_max, ioctl_id, chipq, ioctl_state, rx_free>>

\* Either3::Second: the host packet is framed on the DATA channel, written,
\* released with tx_done; check_status follows. Lens are the lengths of the
\* packets the host stack passes.
TxSend(Lens) ==
    /\ pc = "select"
    /\ tx_ready
    /\ \E n \in Lens :
         last' = [op |-> "tx",
                  frame |-> SdpcmFrame(sdpcm_seq, CHANNEL_TYPE_DATA,
                                       SDPCM_HEADER_SIZE + BCD_HEADER_SIZE + n, 0),
                  kind |-> "none", pkt |-> NoPkt, res |-> NoRes]
    /\ sdpcm_seq' = WrappingAdd8(sdpcm_seq, 1)
    /\ tx_ready' = FALSE
    /\ status' = (chipq > 0)
    /\ irq_du' = FALSE
    /\ pc' = "check_status"
    /\ sent' = [sent EXCEPT !.frames = @ + 1]
    /\ UNCHANGED <<log, events, boot,
                   sdpcm_seq_max, ioctl_id, chipq, ioctl_state, rx_free>>

TxArm == TxSend(TxLens)

\* Runner::handle_irq up to its call of check_status: the interrupt register
\* is read; du is its DATA_UNAVAILABLE bit.
HandleIrq(du) ==
    /\ status' = (chipq > 0)
    /\ last' = [op |-> "irq", frame |-> NoFrame, kind |-> "none", pkt |-> NoPkt, res |-> NoRes]
    /\ IF chipq > 0
       THEN pc' = "check_status" /\ irq_du' = du
       ELSE pc' = LoopTop(sdpcm_seq, sdpcm_seq_max) /\ irq_du' = FALSE
    /\ UNCHANGED <<log, sent, events, boot,
                   sdpcm_seq, sdpcm_seq_max, ioctl_id, chipq, ioctl_state,
                   tx_ready, rx_free>>

\* Either3::Third
IrqArm ==
    /\ pc = "select"
    /\ IrqLine
    /\ \E du \in BOOLEAN : HandleIrq(du)

\* The else branch of run: "TX stalled", wait for the IRQ, handle it.
StalledIrq ==
    /\ pc = "stalled"
    /\ IrqLine
    /\ \E du \in BOOLEAN : HandleIrq(du)

\* How the build treats sdpcm_seq + 2 past 255
Overflow(seq) == IF seq + 2 >= U8 THEN {"panic", "wrap"} ELSE {"wrap"}

\* One pass of the loop in check_status with F2_PKT_AVAILABLE latched: the
\* packet p is read from F2 and dispatched by rx.
RxStep(p, ovf) ==
    LET r == Rx(p, sdpcm_seq, sdpcm_seq_max, ioctl_id, rx_free, ovf)
    IN  /\ pc = "check_status"
        /\ status
        /\ chipq' = chipq - 1
        /\ status' = (chipq - 1 > 0)
        /\ sdpcm_seq_max' = r.seq_max
        /\ ioctl_state' = IF r.done
                          THEN IoctlDone(ioctl_state, r.resp_off, r.resp_len)
                          ELSE ioctl_state
        /\ rx_free' = IF r.enq THEN rx_free - 1 ELSE rx_free
        /\ events' = IF r.pub
                      THEN PublishImmediate(events, [status |-> r.pub_status,
                                                     event_type |-> r.pub_type])
                      ELSE events
        /\ last' = [op |-> "rx", frame |-> NoFrame, kind |-> r.kind, pkt |-> p, res |-> r]
        /\ pc' = IF r.panic THEN "panicked" ELSE "check_status"
        /\ UNCHANGED <<log, sent, boot,
                       sdpcm_seq, ioctl_id, irq_du, tx_ready>>

CheckStatusRx(P) ==
    \E p \in P : \E ovf \in Overflow(sdpcm_seq) : RxStep(p, ovf)

\* The pass of check_status that finds F2_PKT_AVAILABLE clear and breaks;
\* in handle_irq the DATA_UNAVAILABLE write follows; then the loop restarts.
CheckStatusBreak ==
    /\ pc = "check_status"
    /\ ~status
    /\ status' = IF irq_du THEN (chipq > 0) ELSE status
    /\ irq_du' = FALSE
    /\ pc' = LoopTop(sdpcm_seq, sdpcm_seq_max)
    /\ last' = [op |-> "break", frame |-> NoFrame, kind |-> "none", pkt |-> NoPkt, res |-> NoRes]
    /\ UNCHANGED <<log, sent, events, boot,
                   sdpcm_seq, sdpcm_seq_max, ioctl_id, chipq, ioctl_state,
                   tx_ready, rx_free>>

----------------------------------------------------------------------------
(* The environment: the chip, the host stack and the IOCTL callers. A panic *)
(* halts the executor and with it every task.                               *)

Running == pc # "panicked"

ChipSend ==
    /\ Running
    /\ pc # "init"
    /\ chipq < MaxChipQ
    /\ chipq' = chipq + 1
    /\ UNCHANGED <<log, sent, events, boot,
                   sdpcm_seq, sdpcm_seq_max, ioctl_id, pc, irq_du, status,
                   ioctl_state, tx_ready, rx_free, last>>

\* The host stack queues a packet; it queues at most limit packets.
HostTx(limit) ==
    /\ Running
    /\ ~tx_ready
    /\ sent.frames - sent.ioctls < limit
    /\ tx_ready' = TRUE
    /\ UNCHANGED <<log, sent, events, boot,
                   sdpcm_seq, sdpcm_seq_max, ioctl_id, pc, irq_du, status, chipq,
                   ioctl_state, rx_free, last>>

\* A subscriber of the event bus takes the oldest publication.
EventTake ==
    /\ Running
    /\ events # << >>
    /\ events' = Tail(events)
    /\ UNCHANGED <<log, sdpcm_seq, sdpcm_seq_max, ioctl_id, pc, irq_du, status, chipq,
                   ioctl_state, tx_ready, rx_free, last, sent, boot>>

\* The host stack takes a received packet, freeing its buffer.
HostRx ==
    /\ Running
    /\ rx_free < MaxRx
    /\ rx_free' = rx_free + 1
    /\ UNCHANGED <<log, sent, events, boot,
                   sdpcm_seq, sdpcm_seq_max, ioctl_id, pc, irq_du, status, chipq,
                   ioctl_state, tx_ready, last>>

\* A caller puts an IOCTL into the slot; callers that find the slot taken
\* suspend until it is free again.
IoctlSubmit ==
    /\ Running
    /\ ioctl_state.st = "Idle"
    /\ ioctl_id < MaxIoctl
    /\ ioctl_state' = [IdleSlot EXCEPT !.st = "Pending"]
    /\ UNCHANGED <<log, sent, events, boot,
                   sdpcm_seq, sdpcm_seq_max, ioctl_id, pc, irq_du, status, chipq,
                   tx_ready, rx_free, last>>

\* The caller woken by ioctl_done takes its reply and frees the slot.
IoctlCollect ==
    /\ Running
    /\ ioctl_state.st = "Done"
    /\ ioctl_state' = IdleSlot
    /\ UNCHANGED <<log, sent, events, boot,
                   sdpcm_seq, sdpcm_seq_max, ioctl_id, pc, irq_du, status, chipq,
                   tx_ready, rx_free, last>>

----------------------------------------------------------------------------
(* Specifications *)

Next ==
    \/ InitNext
    \/ IoctlArm
    \/ TxArm
    \/ IrqArm
    \/ StalledIrq
    \/ CheckStatusRx(Packets(sdpcm_seq, ioctl_id))
    \/ CheckStatusBreak
    \/ ChipSend
    \/ HostTx(MaxTx)
    \/ HostRx
    \/ IoctlSubmit
    \/ IoctlCollect

Spec == Init /\ [][Next]_vars

\* The credit window over the whole sequence space: the host stack never
\* stops sending, no IOCTL is issued, the chip sends frames that only carry
\* credit.
NextWindow ==
    \/ InitNext
    \/ TxArm
    \/ IrqArm
    \/ StalledIrq
    \/ CheckStatusRx(WindowPackets(sdpcm_seq, ioctl_id))
    \/ CheckStatusBreak
    \/ ChipSend
    \/ HostTx(MaxWindowTx)

SpecWindow == Init /\ [][NextWindow]_vars

\* The steps of the runner task
RunnerNext ==
    \/ InitNext
    \/ IoctlArm
    \/ TxArm
    \/ IrqArm
    \/ StalledIrq
    \/ CheckStatusRx(Packets(sdpcm_seq, ioctl_id))
    \/ CheckStatusBreak

\* The main specification with the scheduling the executor gives: the runner
\* task always gets to take a step it is ready for. Each iteration of run
\* builds the three futures of the select anew and keeps no record of the
\* arm it served last, so no fairness between the arms is assumed.
SpecFair == Init /\ [][Next]_vars /\ WF_vars(RunnerNext)

\* Framing: IOCTLs and host packets of every payload length are sent, the
\* chip answers with well-formed and malformed frames.
NextFrames ==
    \/ InitNext
    \/ IoctlSend(PayloadLens(SDPCM_HEADER_SIZE + CDC_HEADER_SIZE))
    \/ TxSend(PayloadLens(SDPCM_HEADER_SIZE + BCD_HEADER_SIZE))
    \/ IrqArm
    \/ StalledIrq
    \/ CheckStatusRx(WindowPackets(sdpcm_seq, ioctl_id)
                       \cup MalformedPkts(Credit(sdpcm_seq, 1), ioctl_id))
    \/ CheckStatusBreak
    \/ ChipSend
    \/ HostTx(MaxTx)
    \/ IoctlSubmit

SpecFrames == Init /\ [][NextFrames]_vars

\* The counters over more than one round of the sequence space: IOCTLs and
\* host packets are sent, the chip grants one frame of credit at a time.
NextCounters ==
    \/ InitNext
    \/ IoctlArm
    \/ TxArm
    \/ IrqArm
    \/ StalledIrq
    \/ CheckStatusRx(CounterPackets(sdpcm_seq, ioctl_id))
    \/ CheckStatusBreak
    \/ ChipSend
    \/ HostTx(MaxWindowTx)
    \/ IoctlSubmit
    \/ IoctlCollect

SpecCounters == Init /\ [][NextCounters]_vars

\* The inbound side alone: the chip sends EVENT and DATA frames, the
\* subscriber and the host stack take what the runner hands them; no IOCTL
\* and no host packet is submitted.
NextEvents ==
    \/ InitNext
    \/ IrqArm
    \/ StalledIrq
    \/ CheckStatusRx(EventPackets(sdpcm_seq))
    \/ CheckStatusBreak
    \/ ChipSend
    \/ HostRx
    \/ EventTake

SpecEvents == Init /\ [][NextEvents]_vars

\* The log tailer of a build with firmware-logs: after init, log_read is
\* called again and again; once in its loop it runs without suspending.
NextLog ==
    \/ InitNext
    \/ LogRead
    \/ LogLoop

SpecLog == Init /\ [][NextLog]_vars /\ WF_vars(LogLoop)

----------------------------------------------------------------------------
(* Claims *)

\* The predicate of the claims' credit test, in plain arithmetic:
\* seq # seq_max and bit 7 of (seq_max - seq) mod 256 clear.
MayTransmit(seq, seq_max) ==
    seq # seq_max /\ ((seq_max - seq + 256) % 256) < 128

\* A step in which the runner writes a frame to the bus
SendsFrame == sdpcm_seq' # sdpcm_seq \/ (last' # last /\ last'.op \in {"ioctl", "tx"})

\* C1: credit gating. A frame (IOCTL or host data) is sent only from an
\* iteration that started with sdpcm_seq # sdpcm_seq_max and bit 7 of
\* (sdpcm_seq_max - sdpcm_seq) mod 256 clear; an iteration that started
\* without credit takes neither the pending IOCTL nor the host packet, sends
\* nothing, and its only step is the handling of the IRQ.
C1_CreditGating ==
    [][ /\ SendsFrame =>
            pc = "select" /\ MayTransmit(sdpcm_seq, sdpcm_seq_max)
        /\ (pc \in {"select", "stalled"} /\ ~MayTransmit(sdpcm_seq, sdpcm_seq_max)) =>
            /\ ~SendsFrame
            /\ ioctl_state.st = "Pending" => ioctl_state'.st = "Pending"
            /\ tx_ready => tx_ready'
            /\ ioctl_id' = ioctl_id
            /\ pc' # pc => (IrqLine /\ last'.op = "irq")
      ]_vars

\* C1 witness: with credit exhausted, an IOCTL pending and a host packet
\* ready, the runner has handled the IRQ and nothing else.
C1_Witness ==
    /\ last.op = "irq"
    /\ pc = "check_status"
    /\ sdpcm_seq = sdpcm_seq_max
    /\ ioctl_state.st = "Pending"
    /\ tx_ready

\* A step of check_status that reads a packet (last'.pkt) and dispatches it
IsRxStep == pc = "check_status" /\ status /\ chipq' = chipq - 1 /\ last'.op = "rx"

\* An inbound packet that passes the three SDPCM header checks of rx
Accepted(p) ==
    /\ p.plen >= 12
    /\ p.len + p.len_inv = 65535
    /\ p.len = p.plen

\* C2: credit update rule. For every accepted frame with channel nibble
\* below 3 and c = bus_data_credit, sdpcm_seq_max becomes sdpcm_seq + 2 (as a
\* u8) if (c - sdpcm_seq) mod 256 > 0x40 and c otherwise; with channel nibble
\* 3 or more it is left unchanged.
C2_CreditUpdateRule ==
    [][ IsRxStep =>
          LET p == last'.pkt IN
          Accepted(p) =>
             sdpcm_seq_max' =
                IF p.chan % 16 < 3
                THEN IF (p.credit - sdpcm_seq + 256) % 256 > 64
                     THEN (sdpcm_seq + 2) % 256
                     ELSE p.credit
                ELSE sdpcm_seq_max
      ]_vars

\* C3: in every state of the running runner, sdpcm_seq # sdpcm_seq_max holds
\* exactly when the next iteration of the run loop enables the IOCTL and
\* host-TX arms (enters the select rather than the stalled IRQ wait).
C3_SeqDiffersIffMayTransmit ==
    Running =>
      /\ (sdpcm_seq # sdpcm_seq_max) <=> (LoopTop(sdpcm_seq, sdpcm_seq_max) = "select")
      /\ pc \in {"select", "stalled"} =>
            ((sdpcm_seq # sdpcm_seq_max) <=> (pc = "select"))

\* C3 witness: the runner is in the select with sdpcm_seq_max numerically
\* below sdpcm_seq (the window spans the wrap of the sequence space).
C3_Witness ==
    /\ pc = "select"
    /\ sdpcm_seq_max < sdpcm_seq
    /\ last.op = "break"

\* C4: bounded TX window. From sdpcm_seq = 0, sdpcm_seq_max = 1, after any
\* interleaving of sends and credit updates, whatever credit the frames
\* carry, (sdpcm_seq_max - sdpcm_seq) mod 256 is at most 0x40.
C4_BoundedWindow ==
    (sdpcm_seq_max - sdpcm_seq + 256) % 256 <= 64

\* C4 witness: a credit update has opened the window to exactly 0x40 across
\* the wrap of the sequence space.
C4_Witness ==
    /\ last.op = "rx"
    /\ last.kind = "ctl_nomatch"
    /\ (sdpcm_seq_max - sdpcm_seq + 256) % 256 = 64
    /\ sdpcm_seq_max < sdpcm_seq

\* An accepted frame on the CONTROL channel that holds a whole CDC header
ControlWithCdc(p) ==
    /\ Accepted(p)
    /\ p.chan % 16 = 0
    /\ p.hlen <= p.plen
    /\ p.plen - p.hlen >= 16

C6_ReplyMatching ==
    [][ IsRxStep =>
          LET p == last'.pkt IN
          ControlWithCdc(p) =>
             /\ last'.kind = "ctl_done" => p.cdc_id = ioctl_id
             /\ ioctl_state' # ioctl_state => p.cdc_id = ioctl_id
             /\ p.cdc_id # ioctl_id =>
                  /\ ioctl_state' = ioctl_state
                  /\ sdpcm_seq' = sdpcm_seq
                  /\ ioctl_id' = ioctl_id
                  /\ rx_free' = rx_free
                  /\ tx_ready' = tx_ready
                  /\ last'.kind = "ctl_nomatch"
      ]_vars

\* C6 witness: with an IOCTL outstanding, a CONTROL frame with another id
\* has been dropped and the IOCTL is still outstanding.
C6_Witness ==
    /\ last.op = "rx"
    /\ last.kind = "ctl_nomatch"
    /\ last.pkt.cdc_id # ioctl_id
    /\ ioctl_state.st = "Sent"

\* C7: IOCTL round trip, in the form a finite run refutes. Once an IOCTL is
\* sent the runner stays able to complete it whatever frames arrive, and the
\* dispatch of a CONTROL frame with the matching id and status 0 completes
\* the caller with the cdc_header.len bytes after the CDC header.
C7_RoundTrip ==
    [][ /\ ioctl_state.st = "Sent" => pc' # "panicked"
        /\ IsRxStep =>
          LET p == last'.pkt IN
             (/\ ControlWithCdc(p)
              /\ p.cdc_id = ioctl_id
              /\ p.cdc_status = 0
              /\ ioctl_state.st = "Sent") =>
                ioctl_state' = [st |-> "Done",
                                resp_off |-> p.hlen + 16,
                                resp_len |-> p.cdc_len]
      ]_vars

\* C8: IOCTL firmware error. An accepted CONTROL frame with the matching id
\* and a non-zero status completes the waiting caller (with the failure) and
\* the run loop goes on with the next frame.
C8_FirmwareError ==
    [][ IsRxStep =>
          LET p == last'.pkt IN
          (/\ ControlWithCdc(p)
           /\ p.cdc_id = ioctl_id
           /\ p.cdc_status # 0
           /\ ioctl_state.st = "Sent") =>
             /\ ioctl_state'.st = "Done"
             /\ pc' = "check_status"
      ]_vars

\* C9: no error escapes the run loop: whatever packet the chip delivers, rx
\* returns to the drain loop and the runner never aborts.
C9_NoErrorEscapes == pc # "panicked"

\* A packet one of the three SDPCM header checks rejects
Malformed(p) ==
    \/ p.plen < 12
    \/ p.len + p.len_inv # 65535
    \/ p.len # p.plen

\* C10: malformed SDPCM frames change no state. A packet shorter than the
\* 12-byte header, with len_inv not the complement of len, or with a header
\* len other than the received length leaves sdpcm_seq, sdpcm_seq_max and
\* ioctl_id unchanged and causes no IOCTL completion, no event publication
\* and no enqueue into the host RX ring; the drain loop goes on.
C10_MalformedNoChange ==
    [][ IsRxStep =>
          LET p == last'.pkt IN
          Malformed(p) =>
             /\ sdpcm_seq' = sdpcm_seq
             /\ sdpcm_seq_max' = sdpcm_seq_max
             /\ ioctl_id' = ioctl_id
             /\ ioctl_state' = ioctl_state
             /\ rx_free' = rx_free
             /\ last'.kind \in {"too_short", "len_inv_mismatch", "len_mismatch"}
             /\ pc' = "check_status"
      ]_vars

\* C10 witness: with an IOCTL outstanding, a free RX buffer and a window
\* the frame's credit would change, a frame whose header len differs from
\* the received length has been dropped.
C10_Witness ==
    /\ last.op = "rx"
    /\ last.kind = "len_mismatch"
    /\ last.pkt.chan = 0
    /\ last.pkt.cdc_id = ioctl_id
    /\ ioctl_state.st = "Sent"
    /\ rx_free > 0
    /\ sdpcm_seq_max # (sdpcm_seq + 2) % 256

\* An accepted frame on the DATA channel for which rx reaches try_rx_buf: it
\* holds a whole BDC header and its data offset lies within the payload.
DataForRing(p) ==
    /\ Accepted(p)
    /\ p.chan % 16 = 2
    /\ p.hlen <= p.plen
    /\ p.plen - p.hlen >= 4
    /\ 4 + 4 * p.data_offset <= p.plen - p.hlen

EventWithData(p) ==
    /\ Accepted(p)
    /\ p.chan % 16 = 1
    /\ p.hlen <= p.plen
    /\ p.plen - p.hlen >= 4 + 4 * p.data_offset + 72
    /\ LET datalen == Swap32(p.datalen)
       IN  datalen[1] = 0 /\ datalen[2] < p.plen - p.hlen - (4 + 4 * p.data_offset) - 48

\* The 32-bit values of the wire fields after the byteswap
EventTypeOf(p) == Swap32(p.event_type)[1] * 65536 + Swap32(p.event_type)[2]

\* C12: event publication. An accepted EVENT frame produces exactly one
\* publication {status, event_type} if and only if its Ethernet type is
\* 0x886C, its OUI is 00:10:18, its subtype is 32769, its user_subtype is 1
\* and its 32-bit event_type after the byteswap is AUTH (3) or JOIN (1);
\* every other EVENT frame produces no publication.
C12_EventPublication ==
    [][ IsRxStep =>
          LET p == last'.pkt
              valid == /\ Swap16(p.ether_type) = 34924
                       /\ p.oui = <<0, 16, 24>>
                       /\ Swap16(p.subtype) = 32769
                       /\ Swap16(p.user_subtype) = 1
                       /\ EventTypeOf(p) \in {1, 3}
          IN  EventWithData(p) =>
                 /\ last'.res.pub <=> valid
                 /\ valid => events' = PublishImmediate(events,
                                 [status |-> Swap32(p.ev_status),
                                  event_type |-> EventTypeOf(p)])
                 /\ ~valid => events' = events
      ]_vars

\* The publication rx made in the step just taken
Published == [status |-> last'.res.pub_status, event_type |-> last'.res.pub_type]

\* C13: event ordering. Publications enter the event bus in the order in
\* which their EVENT frames were read: each is added behind the older ones
\* in the very step of the RX drain that read its frame, before the runner
\* re-enters the select, and nothing else the runner does adds, removes or
\* reorders publications.
C13_EventOrdering ==
    [][ /\ (IsRxStep /\ last'.res.pub) =>
              /\ last'.pkt.chan % 16 = 1
              /\ events' = Append(IF Len(events) >= MaxEvents
                                  THEN Tail(events) ELSE events, Published)
              /\ pc = "check_status" /\ pc' = "check_status"
        /\ events' # events =>
              \/ IsRxStep /\ last'.res.pub
              \/ events' = Tail(events) /\ pc' = pc /\ last' = last
      ]_vars

\* C13 witness: a JOIN frame and then an AUTH frame were read; the bus holds
\* the JOIN publication ahead of the AUTH publication.
C13_Witness ==
    /\ last.op = "rx"
    /\ last.kind = "ev_publish"
    /\ EventTypeOf(last.pkt) = 3
    /\ Len(events) = 2
    /\ events[1] = [status |-> W32(0), event_type |-> 1]
    /\ events[2] = [status |-> W32(1), event_type |-> 3]

\* C14: RX drained before the next select. Whichever branch an iteration of
\* the run loop took, the runner is at the top of the loop (in the select or
\* in the credit-stalled IRQ wait) only with a latched bus status that does
\* not show F2_PKT_AVAILABLE: every packet a status word announced during the
\* iteration has been read and dispatched.
C14_RxDrained ==
    pc \in {"select", "stalled"} => ~status

C16_LenInv ==
    /\ last.op \in {"ioctl", "tx"} =>
          /\ last.frame.len + last.frame.len_inv = 65535
          /\ last.frame.len <= 2048
    /\ (last.op = "rx"
          /\ last.kind \notin {"too_short", "len_inv_mismatch", "len_mismatch"}) =>
          last.pkt.len + last.pkt.len_inv = 65535

\* C16 witness: an IOCTL whose frame fills the scratch buffer has been sent.
C16_Witness ==
    /\ last.op = "ioctl"
    /\ last.frame.len = 2048
    /\ last.frame.len_inv = 63487

\* The bus operations init has performed so far
BootDone == { boot.ops[i] : i \in DOMAIN boot.ops }

\* What the boot steps require to have happened before an operation
BootRequires(op) ==
    CASE op = "alp_avail" -> {"alp_req"}
      [] op \in {"wlan_disable", "socsram_reset"} -> {"alp_req", "alp_avail"}
      [] op \in {"fw", "nvram", "nvram_len"} ->
            {"alp_avail", "wlan_disable", "socsram_reset"}
      [] op = "wlan_reset" ->
            {"alp_avail", "wlan_disable", "socsram_reset", "fw", "nvram", "nvram_len"}
      [] op = "wlan_up" -> {"fw", "nvram", "nvram_len", "wlan_reset"}
      [] op \in {"irq_enable", "watermark"} -> {"wlan_up", "ht_avail"}
      [] OTHER -> {}

\* C17: boot order. In init the ALP clock is requested and observed
\* available before any core control; the WLAN core is disabled (in reset)
\* and the SOCSRAM core reset (running) before the firmware is written;
\* firmware, NVRAM and the NVRAM length trailer are written before the WLAN
\* core is reset and checked up; the interrupt is unmasked and the watermark
\* written only after the clock CSR has shown bit 0x80; init completes only
\* after bus status has shown F2_RX_READY, however many polls a wait needs.
C17_BootOrder ==
    [][ /\ boot'.ops # boot.ops =>
              LET op == boot'.ops[Len(boot'.ops)] IN
              /\ boot'.ops = Append(boot.ops, op)
              /\ op \notin BootDone
              /\ BootRequires(op) \subseteq BootDone
              /\ op = "alp_avail" => "ALP_AVAIL" \in boot'.read
              /\ op = "ht_avail" => "HT_AVAIL" \in boot'.read
              /\ op = "f2_rx_ready" => "F2_RX_READY" \in boot'.read
              /\ op \in {"fw", "nvram", "nvram_len"} =>
                    /\ boot.core["WLAN"].reset
                    /\ ~boot.core["SOCSRAM"].reset
              /\ op = "wlan_up" =>
                    /\ ~boot.core["WLAN"].reset
                    /\ boot.core["WLAN"].ioctrl = {"CLOCK_EN"}
        /\ (pc = "init" /\ pc' \notin {"init", "panicked"}) =>
              /\ boot'.ops = BootOps
              /\ "f2_rx_ready" \in BootDone
        /\ pc # "init" => boot' = boot
      ]_vars

\* C17 witness: the last wait of init has
\* polled MaxPolls times without seeing F2_RX_READY, every earlier step done.
C17_Witness ==
    /\ pc = "init"
    /\ boot.pc = "f2_wait"
    /\ boot.polls = MaxPolls
    /\ "F2_RX_READY" \notin boot.read
    /\ Len(boot.ops) = 14
    /\ boot.ops[14] = "watermark"

\* C18: sequence and id counters. The k-th frame the runner transmits
\* (IOCTL or data, counted from 0) carries SDPCM sequence k mod 256 and the
\* j-th IOCTL it sends (counted from 1) carries CDC id j mod 65536;
\* sdpcm_seq advances by exactly one per transmitted frame, ioctl_id by
\* exactly one per IOCTL send and not on a data send, and receiving frames
\* changes neither counter.
C18_Counters ==
    /\ [](/\ sdpcm_seq = sent.frames % 256
          /\ ioctl_id = sent.ioctls % 65536
          /\ last.op \in {"ioctl", "tx"} =>
                last.frame.sequence = (sent.frames - 1) % 256
          /\ last.op = "ioctl" => last.frame.id = sent.ioctls % 65536)
    /\ [][ /\ sent'.frames \in {sent.frames, sent.frames + 1}
           /\ sent'.ioctls \in {sent.ioctls, sent.ioctls + 1}
           /\ sent'.frames = sent.frames + 1 =>
                 /\ last'.op \in {"ioctl", "tx"}
                 /\ sdpcm_seq' = (sdpcm_seq + 1) % 256
                 /\ last'.op = "ioctl" =>
                       sent'.ioctls = sent.ioctls + 1 /\ ioctl_id' = (ioctl_id + 1) % 65536
                 /\ last'.op = "tx" =>
                       sent'.ioctls = sent.ioctls /\ ioctl_id' = ioctl_id
           /\ sent'.frames = sent.frames =>
                 sdpcm_seq' = sdpcm_seq /\ ioctl_id' = ioctl_id /\ sent' = sent
           /\ IsRxStep => sdpcm_seq' = sdpcm_seq /\ ioctl_id' = ioctl_id
         ]_vars

\* C18 witness: the frame with number 256 is the second IOCTL: it carries
\* sequence 0 and id 2.
C18_Witness ==
    /\ sent.frames = 257
    /\ sent.ioctls = 2
    /\ last.op = "ioctl"
    /\ last.frame.sequence = 0
    /\ last.frame.id = 2

\* A step of the TX branch: a host packet is taken from tx_buf and framed
TxStep == sent'.frames = sent.frames + 1 /\ last'.op = "tx"

\* C19: host TX handling. Each host packet obtained from tx_buf in the TX
\* branch results in exactly one bus write of one DATA-channel frame wrapping
\* that packet, followed by exactly one tx_done, followed by the RX drain,
\* all before the runner re-enters the select; no host packet is released
\* with tx_done without having been written to the bus, and none is written
\* twice.
C19_HostTx ==
    [][ /\ TxStep =>
              /\ pc = "select" /\ tx_ready
              /\ sent'.ioctls = sent.ioctls
              /\ last'.frame.channel_and_flags = 2
              /\ last'.frame.sequence = sdpcm_seq
              /\ \E n \in TxLens :
                    /\ last'.frame.len = 12 + 4 + n
                    /\ last'.frame.words = (12 + 4 + n + 3) \div 4
              /\ ~tx_ready'
              /\ pc' = "check_status"
        /\ (tx_ready /\ ~tx_ready') => TxStep
        /\ (last'.frame.channel_and_flags = 2 /\ last' # last) => TxStep
        /\ (pc = "check_status" /\ pc' \in {"select", "stalled"}) =>
              ~status /\ last'.op = "break"
      ]_vars

\* C19 witness: the second host packet has been written and released while
\* the chip has a packet waiting; the runner is in the RX drain.
C19_Witness ==
    /\ last.op = "tx"
    /\ last.frame.len = 76
    /\ last.frame.sequence = sent.frames - 1
    /\ sent.frames - sent.ioctls = 2
    /\ ~tx_ready
    /\ pc = "check_status"
    /\ status

\* C20: the clamp arithmetic of update_credit stays within 8 bits. Whenever
\* an accepted frame's credit triggers the clamp, sdpcm_seq + 2 does not
\* exceed 255, so the value stored in sdpcm_seq_max is computed without
\* unsigned 8-bit overflow.
C20_ClampInRange ==
    [][ IsRxStep =>
          LET p == last'.pkt IN
          (/\ Accepted(p)
           /\ p.chan % 16 < 3
           /\ (p.credit - sdpcm_seq + 256) % 256 > 64) =>
              /\ sdpcm_seq + 2 <= 255
              /\ sdpcm_seq_max' = sdpcm_seq + 2
              /\ pc' # "panicked"
      ]_vars

\* C21: ioctl_done only for an outstanding IOCTL. The runner calls
\* ioctl_done only while an IOCTL it has sent is still awaiting its reply:
\* no inbound CONTROL frame, in particular one with id 0 received before any
\* IOCTL was sent or a second frame repeating the id of a completed IOCTL,
\* makes it call ioctl_done when no IOCTL is outstanding.
C21_DoneOnlyOutstanding ==
    [][ (IsRxStep /\ last'.res.done) => ioctl_state.st = "Sent" ]_vars

\* C22: firmware log tailing terminates. For every write index idx the
\* chip's log header can report, the loop in log_read ends with
\* last_idx = idx; in every state last_idx stays below 0x400 and buf_count
\* stays at most 256.
C22_LogTailing ==
    /\ [](log.last_idx < 1024 /\ log.buf_count <= 256)
    /\ (log.pc = "loop") ~> (log.pc = "idle" /\ log.last_idx = log.idx)

====
